---- MODULE Spec2Model ----
(***************************************************************************)
(* Model of the per-room fan controller of fan-control:                    *)
(*   src/lib/RoomControl.js   class RoomControl (state, updateFans,        *)
(*                            mutators)                                    *)
(*   src/unnamed/part_000     process bootstrap and handleMqttMessage      *)
(*                                                                         *)
(* Time is counted in whole seconds.  The source uses a timestamp only     *)
(* through its distance to the present (moment().diff(since), lines 130,   *)
(* 186, 198) and through its order with another timestamp (lines 171,      *)
(* 179), so every `since` is kept as that distance: the number of seconds  *)
(* it lies in the past, 0 for a timestamp taken now.  A second passing     *)
(* (Tick) moves every timestamp one second further into the past.          *)
(* Distances stop growing at MaxAge, which is above every timer, so that   *)
(* all comparisons with a timer keep their result and the clock can run    *)
(* forever.                                                                *)
(*                                                                         *)
(* Two specifications.  Spec has every mutator and the tick, and a         *)
(* transport that is prompt: the controller receives its next event when   *)
(* its last publish has resolved and has come back.  SpecAsync lets events *)
(* and ticks arrive while a publish is outstanding.  SpecFault is a room   *)
(* of two fans under faults: a speed that is no method of the actuator, a  *)
(* fan id the room does not have, a publish that fails.  SpecTable starts  *)
(* from every combination of humidity, thresholds and recorded speed and   *)
(* runs the passes that follow.                                            *)
(*                                                                         *)
(* updateFans is an async function.  It runs synchronously until it        *)
(* reaches `await mqttClient.publish(...)` (line 216); there the message   *)
(* is handed to the transport and the pass is suspended.  The suspended    *)
(* pass is resumed by a later turn of the event loop (action Resume).      *)
(* The process subscribes to the fan speed topic it publishes to           *)
(* (part_000 line 113), so every published speed comes back through        *)
(* handleMqttMessage as a call of the speed mutator (action Deliver).      *)
(* The transport stamps every payload with `since`, the time it was        *)
(* published: the controller's own publishers pass {value} only (lines     *)
(* 69, 88, 216) and updateFans reads `since` from what comes back.         *)
(***************************************************************************)
EXTENDS Integers, Sequences, FiniteSets, TLC

\* ---------------------------------------------------------------- bounds
MaxPending == 2       \* passes suspended at the await at one time
MaxInflight == 2      \* published fan speeds not yet delivered back
MaxOverrides == 1     \* threshold/timer overrides set at one time
MaxUnknown == 1       \* fields set for fan ids the room does not have

\* ------------------------------------------------------- program constants
NoValue == -1         \* `undefined`: a path _.get does not find
DownToMin == 5        \* minHumidityThreshold - 5
DownToMax == 10       \* maxHumidityThreshold - 10

\* The room configuration (params.room).  The timers are in seconds.
CfgMinHumidityThreshold == 60
CfgMaxHumidityThreshold == 80
CfgMinRunTime == 2
CfgLightTimeout == 2
CfgTrailingTime == 2

Fan1 ==
  [id |-> "f1",
   minHumidityThreshold |-> CfgMinHumidityThreshold,
   maxHumidityThreshold |-> CfgMaxHumidityThreshold,
   minRunTime |-> CfgMinRunTime,
   lightTimeout |-> CfgLightTimeout,
   trailingTime |-> CfgTrailingTime,
   triggerLights |-> <<"l1">>]

Room1 == [fans |-> <<Fan1>>, lights |-> <<"l1">>]

\* A room of two fans.
Fan2 == [Fan1 EXCEPT !.id = "f2"]
Room2 == [fans |-> <<Fan1, Fan2>>, lights |-> <<"l1">>]

\* ------------------------------------------------------------ input sets
SpeedValues == {"off", "min", "max"}
ControlValues == {"manual", "auto"}
LightValues == {"on", "off"}
HumidityValues == {0, 48, 75, 85}
TemperatureValues == {21}
OverrideNames ==
  {"minHumidityThreshold", "maxHumidityThreshold", "minRunTime", "lightTimeout",
   "trailingTime"}
OverrideValue ==
  [minHumidityThreshold |-> 50, maxHumidityThreshold |-> 70, minRunTime |-> 1,
   lightTimeout |-> 1, trailingTime |-> 1]

\* Inputs from outside the controller's domain.
UnknownSpeedValues == {"turbo"}        \* no method of the Fan control
UnknownFanIds == {"fX"}                \* no fan of the room
FanMutators == {"control", "speed"} \cup OverrideNames

\* Inputs of the humidity decision: thresholds <<min, max>> and readings
\* around them.
TableThresholds == {<<3, 8>>, <<3, 80>>, <<60, 80>>}
TableHumidity == {0, 1, 2, 3, 4, 8, 9, 50, 55, 56, 60, 61, 70, 71, 80, 81}

\* Timestamps further back than every timer are all alike.
Timers ==
  {CfgMinRunTime, CfgLightTimeout, CfgTrailingTime, OverrideValue.minRunTime,
   OverrideValue.lightTimeout, OverrideValue.trailingTime}
MaxAge == 1 + CHOOSE m \in Timers : \A x \in Timers : m >= x

VARIABLES
  room,          \* this.room, the configuration; never written
  roomStatus,    \* this.roomStatus
  fansTrailing,  \* this.fansTrailing
  pending,       \* the passes suspended at `await mqttClient.publish`, oldest first
  inflight,      \* fan speed messages published and not yet delivered back
  event,         \* the handler the last step ran: "tick", a mutator, "resume"
  trace          \* what the last step did with each fan (see NoTrace)

vars == <<room, roomStatus, fansTrailing, pending, inflight, event, trace>>

FanIds(r) == {r.fans[i].id : i \in 1..Len(r.fans)}
LightIds(r) == {r.lights[i] : i \in 1..Len(r.lights)}

\* trace[id].step:   "none"    the step did not reach this fan
\*                   "manual"  line 123-126: commanded the recorded speed
\*                   "guard"   line 130-133: skipped, nothing commanded
\*                   "eval"    line 138-219: newSpeed decided in this step
\*                   "resume"  line 219 of a pass resumed after its await
\*                   "throw"   line 124: fansMap[fan.id][speed] is not a function
\*                   "reject"  line 216: the awaited publish was rejected
\* newSpeed, commanded: a speed, or "none"; published: line 216 was reached;
\* wasTrailing: fansTrailing[id] as the step found it
NoTrace(was) ==
  [step |-> "none", newSpeed |-> "none", published |-> FALSE, commanded |-> "none",
   wasTrailing |-> was]

\* _.get(object, path, default)
Get(v, default) == IF v = NoValue THEN default ELSE v

\* moment().diff(since, 'millisecond'): how far in the past `since` lies
Diff(since) == since

\* One second passes for a timestamp (undefined stays undefined).
Older(since) ==
  IF since = NoValue THEN NoValue ELSE IF since < MaxAge THEN since + 1 ELSE MaxAge

\* ------------------------------------------------ updateFans, one fan
\* The guard with speedSince never found, so that it is always `new Date()`.
KeepRunningNoSince(speed, speedSince, minRunTime) ==
  speed # "off" /\ Diff(0) < minRunTime

\* line 130: speed !== 'off' && moment().diff(speedSince) < ms(`${minRunTime}s`)
KeepRunning(speed, speedSince, minRunTime) ==
  speed # "off" /\ Diff(speedSince) < minRunTime

\* The humidity step keeping the recorded speed while no reading is there.
HumiditySpeedKeepsSpeed(humidity, speed, minHumidityThreshold, maxHumidityThreshold) ==
  LET downToMinThreshold == minHumidityThreshold - DownToMin
      downToMaxThreshold == maxHumidityThreshold - DownToMax
  IN  IF humidity = NoValue \/ humidity = 0 THEN speed
      ELSE IF humidity > maxHumidityThreshold THEN "max"
      ELSE IF speed = "max" /\ humidity > downToMaxThreshold THEN "max"
      ELSE IF humidity > minHumidityThreshold THEN "min"
      ELSE IF speed = "min" /\ humidity > downToMinThreshold THEN "min"
      ELSE "off"

\* lines 138-159
HumiditySpeed(humidity, speed, minHumidityThreshold, maxHumidityThreshold) ==
  LET downToMinThreshold == minHumidityThreshold - DownToMin
      downToMaxThreshold == maxHumidityThreshold - DownToMax
  IN  IF humidity = NoValue \/ humidity = 0 THEN "off"    \* if(humidity): 0 is falsy
      ELSE IF humidity > maxHumidityThreshold THEN "max"
      ELSE IF speed = "max" /\ humidity > downToMaxThreshold THEN "max"
      ELSE IF humidity > minHumidityThreshold THEN "min"
      ELSE IF speed = "min" /\ humidity > downToMinThreshold THEN "min"
      ELSE "off"

\* lines 161-183: the loop over fan.triggerLights, from position k on.
\* !x is true of null and undefined; a comparison with undefined is false;
\* onSince < minLightOnSince (an earlier timestamp) is a greater distance.
RECURSIVE ScanLights(_, _, _, _)
ScanLights(lights, triggerLights, k, acc) ==
  IF k > Len(triggerLights) THEN acc
  ELSE LET light == lights[triggerLights[k]]
           since == light.since
       IN  IF light.value = "on"
           THEN ScanLights(lights, triggerLights, k + 1,
                  [acc EXCEPT
                     !.minLightOnSince =
                        IF acc.minLightOnSince = NoValue
                           \/ (since # NoValue /\ since > acc.minLightOnSince)
                        THEN since ELSE @,
                     !.anyLightOn = TRUE])
           ELSE ScanLights(lights, triggerLights, k + 1,
                  [acc EXCEPT
                     !.maxLightOffSince =
                        IF acc.maxLightOffSince = NoValue
                           \/ (since # NoValue /\ since < acc.maxLightOffSince)
                        THEN since ELSE @])

LightsOf(rs, fan) ==
  ScanLights(rs.lights, fan.triggerLights, 1,
             [minLightOnSince |-> NoValue, maxLightOffSince |-> NoValue,
              anyLightOn |-> FALSE])

\* The lights-on step without the timeout: trailing as soon as a light is on.
TrailingStartNoTimeout(scan, trailing, lightTimeout) ==
  IF scan.anyLightOn /\ scan.minLightOnSince # NoValue THEN TRUE ELSE trailing

\* The lights-on step reading the timestamp of the lights that are off.
TrailingStartOffSince(scan, trailing, lightTimeout) ==
  IF scan.anyLightOn /\ scan.maxLightOffSince # NoValue
     /\ Diff(scan.maxLightOffSince) > lightTimeout
  THEN TRUE ELSE trailing

\* lines 185-195: fansTrailing[fan.id] after the lights-on step
TrailingStart(scan, trailing, lightTimeout) ==
  IF scan.anyLightOn /\ scan.minLightOnSince # NoValue
     /\ Diff(scan.minLightOnSince) > lightTimeout
  THEN TRUE ELSE trailing

\* The lights-off step ending the trailing one second early (>= for >).
TrailingEndEarly(scan, trailing, trailingTime) ==
  IF ~scan.anyLightOn /\ trailing /\ scan.maxLightOffSince # NoValue
     /\ Diff(scan.maxLightOffSince) >= trailingTime
  THEN FALSE ELSE trailing

\* lines 197-209: fansTrailing[fan.id] after the lights-off step
TrailingEnd(scan, trailing, trailingTime) ==
  IF ~scan.anyLightOn /\ trailing /\ scan.maxLightOffSince # NoValue
     /\ Diff(scan.maxLightOffSince) > trailingTime
  THEN FALSE ELSE trailing

\* lines 211-213
ApplyTrailing(trailing, newSpeed) == IF trailing THEN "min" ELSE newSpeed

\* The iteration taking the room's temperature for its humidity.
EffectiveOfTemperature(rs, fan) ==
  LET st == rs.fans[fan.id] IN
  [humidity |-> IF rs.temperature # NoValue THEN rs.temperature ELSE rs.humidity,
   minHumidityThreshold |-> Get(st.minHumidityThreshold, fan.minHumidityThreshold),
   maxHumidityThreshold |-> Get(st.maxHumidityThreshold, fan.maxHumidityThreshold),
   minRunTime |-> Get(st.minRunTime, fan.minRunTime),
   lightTimeout |-> Get(st.lightTimeout, fan.lightTimeout),
   trailingTime |-> Get(st.trailingTime, fan.trailingTime),
   control |-> st.control,
   speed |-> st.speed.value,
   speedSince |-> Get(st.speed.since, 0)]

\* lines 110-121: what one iteration reads
Effective(rs, fan) ==
  LET st == rs.fans[fan.id] IN
  [humidity |-> rs.humidity,
   minHumidityThreshold |-> Get(st.minHumidityThreshold, fan.minHumidityThreshold),
   maxHumidityThreshold |-> Get(st.maxHumidityThreshold, fan.maxHumidityThreshold),
   minRunTime |-> Get(st.minRunTime, fan.minRunTime),
   lightTimeout |-> Get(st.lightTimeout, fan.lightTimeout),
   trailingTime |-> Get(st.trailingTime, fan.trailingTime),
   control |-> st.control,                      \* set since line 54, 58:
   speed |-> st.speed.value,                    \* the defaults never apply
   speedSince |-> Get(st.speed.since, 0)]       \* default: new Date()

\* The mode test inverted.
IsManualInverted(control) == control # "manual"

\* line 123
IsManual(control) == control = "manual"

\* line 215
Changed(speed, newSpeed) == speed # newSpeed

\* lines 124, 219: fansMap[fan.id][speed] is a function of the Fan control
IsMethod(speed) == speed \in {"off", "min", "max"}

\* lines 109-219 for one fan, up to the await: the step taken, the new
\* fansTrailing[fan.id] and whether the pass suspends on a publish
EvalFan(rs, fan, trailing) ==
  LET e == Effective(rs, fan)
      scan == LightsOf(rs, fan)
      started == TrailingStart(scan, trailing, e.lightTimeout)
      ended == TrailingEnd(scan, started, e.trailingTime)
      newSpeed == ApplyTrailing(ended,
                    HumiditySpeed(e.humidity, e.speed, e.minHumidityThreshold,
                                  e.maxHumidityThreshold))
  IN  IF IsManual(e.control)
      THEN [trailing |-> trailing,
            trace |-> IF IsMethod(e.speed)
                      THEN [step |-> "manual", newSpeed |-> "none",
                            published |-> FALSE, commanded |-> e.speed,
                            wasTrailing |-> trailing]
                      ELSE [step |-> "throw", newSpeed |-> "none",
                            published |-> FALSE, commanded |-> "none",
                            wasTrailing |-> trailing]]
      ELSE IF KeepRunning(e.speed, e.speedSince, e.minRunTime)
      THEN [trailing |-> trailing,
            trace |-> [step |-> "guard", newSpeed |-> "none", published |-> FALSE,
                       commanded |-> "none", wasTrailing |-> trailing]]
      ELSE IF Changed(e.speed, newSpeed)
      THEN [trailing |-> ended,
            trace |-> [step |-> "eval", newSpeed |-> newSpeed, published |-> TRUE,
                       commanded |-> "none", wasTrailing |-> trailing]]
      ELSE [trailing |-> ended,
            trace |-> [step |-> "eval", newSpeed |-> newSpeed, published |-> FALSE,
                       commanded |-> newSpeed, wasTrailing |-> trailing]]

\* ------------------------------------------------ updateFans, the loop
\* line 108: the iterations from fan i on, until the loop ends, an
\* iteration suspends at the await or one throws.  acc carries fansTrailing and the trace.
RECURSIVE RunFans(_, _, _, _)
RunFans(r, rs, i, acc) ==
  IF i > Len(r.fans) THEN acc
  ELSE LET fan == r.fans[i]
           res == EvalFan(rs, fan, acc.fansTrailing[fan.id])
           nxt == [acc EXCEPT !.fansTrailing[fan.id] = res.trailing,
                              !.trace[fan.id] = res.trace]
       IN  IF res.trace.published
           THEN [nxt EXCEPT
                   !.suspended = <<[idx |-> i, newSpeed |-> res.trace.newSpeed]>>,
                   !.published = <<[id |-> fan.id, value |-> res.trace.newSpeed,
                                    since |-> 0]>>]
           ELSE IF res.trace.step = "throw"
           THEN nxt                  \* the TypeError leaves the loop
           ELSE RunFans(r, rs, i + 1, nxt)

\* A synchronous run of updateFans from fan i over status rs; the queues
\* pend and infl are what the step leaves of pending and inflight.
Run(ev, rs, i, tr, pend, infl) ==
  \E res \in {RunFans(room, rs, i,
                       [fansTrailing |-> fansTrailing, trace |-> tr,
                        suspended |-> <<>>, published |-> <<>>])} :
      /\ Len(pend) + Len(res.suspended) <= MaxPending
      /\ Len(infl) + Len(res.published) <= MaxInflight
      /\ event' = ev
      /\ roomStatus' = rs
      /\ fansTrailing' = res.fansTrailing
      /\ trace' = res.trace
      /\ pending' = pend \o res.suspended
      /\ inflight' = infl \o res.published
      /\ UNCHANGED room

Blank == [id \in FanIds(room) |-> NoTrace(fansTrailing[id])]

\* updateFans() called from the top by handler ev: lines 103-221
updateFans(ev, rs, infl) == Run(ev, rs, 1, Blank, pending, infl)

\* ------------------------------------------------------------ constructor
\* The constructor leaving every fan in auto mode.
InitAuto ==
  /\ room = Room1
  /\ roomStatus =
       [fans |-> [id \in FanIds(room) |->
                    [control |-> "auto",
                     speed |-> [value |-> "off", since |-> NoValue],
                     minHumidityThreshold |-> NoValue,
                     maxHumidityThreshold |-> NoValue,
                     minRunTime |-> NoValue,
                     lightTimeout |-> NoValue,
                     trailingTime |-> NoValue]],
        lights |-> [id \in LightIds(room) |-> [value |-> "unset", since |-> NoValue]],
        humidity |-> NoValue,
        temperature |-> NoValue]
  /\ fansTrailing = [id \in FanIds(room) |-> FALSE]
  /\ pending = <<>>
  /\ inflight = <<>>
  /\ event = "constructor"
  /\ trace = [id \in FanIds(room) |-> NoTrace(FALSE)]

\* new RoomControl({room: r, ...}): lines 26-101
Construct(r) ==
  /\ room = r
  /\ roomStatus =
       [fans |-> [id \in FanIds(room) |->
                    [control |-> "manual",
                     speed |-> [value |-> "off", since |-> NoValue],
                     minHumidityThreshold |-> NoValue,
                     maxHumidityThreshold |-> NoValue,
                     minRunTime |-> NoValue,
                     lightTimeout |-> NoValue,
                     trailingTime |-> NoValue]],
        \* lights[id] = {value: {value: 'off'}}: lights[id].value is an object,
        \* which is not 'on'; lights[id].since is undefined
        lights |-> [id \in LightIds(room) |-> [value |-> "unset", since |-> NoValue]],
        humidity |-> NoValue,
        temperature |-> NoValue]
  /\ fansTrailing = [id \in FanIds(room) |-> FALSE]    \* {}: every entry falsy
  /\ pending = <<>>
  /\ inflight = <<>>
  /\ event = "constructor"
  /\ trace = [id \in FanIds(room) |-> NoTrace(FALSE)]

Init == Construct(Room1)

InitFault == Construct(Room2)

\* A room in auto mode with a speed recorded long ago, for every combination
\* of thresholds, humidity and recorded speed.
InitTable ==
  \E th \in TableThresholds, h \in TableHumidity, v \in SpeedValues :
    /\ room = [fans |-> <<[Fan1 EXCEPT !.minHumidityThreshold = th[1],
                                      !.maxHumidityThreshold = th[2]]>>,
               lights |-> <<"l1">>]
    /\ roomStatus =
         [fans |-> [id \in FanIds(room) |->
                      [control |-> "auto",
                       speed |-> [value |-> v, since |-> MaxAge],
                       minHumidityThreshold |-> NoValue,
                       maxHumidityThreshold |-> NoValue,
                       minRunTime |-> NoValue,
                       lightTimeout |-> NoValue,
                       trailingTime |-> NoValue]],
          lights |-> [id \in LightIds(room) |-> [value |-> "unset", since |-> NoValue]],
          humidity |-> h,
          temperature |-> NoValue]
    /\ fansTrailing = [id \in FanIds(room) |-> FALSE]
    /\ pending = <<>>
    /\ inflight = <<>>
    /\ event = "constructor"
    /\ trace = [id \in FanIds(room) |-> NoTrace(FALSE)]

\* ---------------------------------------------------------------- actions
\* What _.set creates at roomStatus.fans[id] when the id is new: an object
\* with no other key.
NoFan ==
  [control |-> "undefined",
   speed |-> [value |-> "undefined", since |-> NoValue],
   minHumidityThreshold |-> NoValue,
   maxHumidityThreshold |-> NoValue,
   minRunTime |-> NoValue,
   lightTimeout |-> NoValue,
   trailingTime |-> NoValue]

\* _.set(this.roomStatus, ['fans', id, n], data)
SetFan(rs, id, n, data) ==
  IF id \in DOMAIN rs.fans
  THEN [rs EXCEPT !.fans[id][n] = data]
  ELSE [rs EXCEPT !.fans = [k \in DOMAIN rs.fans \cup {id} |->
                              IF k = id THEN [NoFan EXCEPT ![n] = data]
                              ELSE rs.fans[k]]]

\* One second later: every timestamp held lies one second further back.
Later(rs) ==
  [rs EXCEPT
     !.fans = [id \in DOMAIN rs.fans |->
                 [rs.fans[id] EXCEPT !.speed.since = Older(@)]],
     !.lights = [id \in DOMAIN rs.lights |->
                   [rs.lights[id] EXCEPT !.since = Older(@)]]]

LaterInflight(infl) ==
  [k \in 1..Len(infl) |-> [infl[k] EXCEPT !.since = Older(@)]]

\* setInterval(() => this.updateFans(), 1000)
Tick == updateFans("tick", Later(roomStatus), LaterInflight(inflight))

\* control(id, data)
Control ==
  \E id \in FanIds(room), v \in ControlValues :
    updateFans("control", SetFan(roomStatus, id, "control", v), inflight)

\* speed(id, data), the message of another publisher
Speed ==
  \E id \in FanIds(room), v \in SpeedValues :
    updateFans("speed", SetFan(roomStatus, id, "speed", [value |-> v, since |-> 0]),
               inflight)

\* speed(id, data) with a value that is none of off, min, max
SpeedUnknown ==
  \E id \in FanIds(room), v \in UnknownSpeedValues :
    updateFans("speed", SetFan(roomStatus, id, "speed", [value |-> v, since |-> 0]),
               inflight)

OverridesSet(rs) ==
  Cardinality({idn \in FanIds(room) \X OverrideNames : rs.fans[idn[1]][idn[2]] # NoValue})

\* minHumidityThreshold(id, data) ... trailingTime(id, data)
Override ==
  \E id \in FanIds(room), n \in OverrideNames :
    LET rs == SetFan(roomStatus, id, n, OverrideValue[n]) IN
    /\ OverridesSet(rs) <= MaxOverrides
    /\ updateFans(n, rs, inflight)

\* The payloads of the fan mutator n.
MutatorData(n) ==
  IF n = "control" THEN {"auto"}
  ELSE IF n = "speed" THEN {[value |-> "max", since |-> 0]}
  ELSE {OverrideValue[n]}

UnknownSet(rs) ==
  Cardinality({idn \in (DOMAIN rs.fans \ FanIds(room)) \X FanMutators :
                 rs.fans[idn[1]][idn[2]] # NoFan[idn[2]]})

\* control(id, data) ... trailingTime(id, data) for an id that is no fan of
\* the room
UnknownFan ==
  \E id \in UnknownFanIds, n \in FanMutators :
    \E data \in MutatorData(n) :
      LET rs == SetFan(roomStatus, id, n, data) IN
      /\ UnknownSet(rs) <= MaxUnknown
      /\ updateFans("unknown fan", rs, inflight)

\* lights(id, data)
Lights ==
  \E id \in LightIds(room), v \in LightValues :
    updateFans("lights", [roomStatus EXCEPT !.lights[id] = [value |-> v, since |-> 0]],
               inflight)

\* temperature(data)
Temperature ==
  \E v \in TemperatureValues :
    updateFans("temperature", [roomStatus EXCEPT !.temperature = v], inflight)

\* humidity(data)
Humidity ==
  \E v \in HumidityValues :
    updateFans("humidity", [roomStatus EXCEPT !.humidity = v], inflight)

\* handleMqttMessage for the fan speed the controller published itself
Deliver ==
  /\ inflight # <<>>
  /\ LET m == Head(inflight) IN
     Run("speed",
         [roomStatus EXCEPT !.fans[m.id].speed = [value |-> m.value, since |-> m.since]],
         1, Blank, pending, Tail(inflight))

\* the publish promise resolves: line 219 of the suspended pass, then the
\* rest of its loop
Resume ==
  /\ pending # <<>>
  /\ LET p == Head(pending)
         id == room.fans[p.idx].id
     IN  Run("resume", roomStatus, p.idx + 1,
             [Blank EXCEPT ![id] = [step |-> "resume", newSpeed |-> p.newSpeed,
                                    published |-> FALSE, commanded |-> p.newSpeed,
                                    wasTrailing |-> fansTrailing[id]]],
             Tail(pending), inflight)

\* line 216 with the publish rejected: the exception leaves updateFans at
\* the await; line 219 and the rest of the loop are not run, nothing is in
\* flight.
PublishRejected(res) ==
  LET id == room.fans[res.suspended[1].idx].id IN
  [res EXCEPT !.suspended = <<>>,
              !.published = <<>>,
              !.trace[id] = [@ EXCEPT !.step = "reject", !.published = FALSE]]

\* The tick, with the transport failing the publish of its pass.  (The
\* rejection reaches the pass a turn of the event loop later; it changes no
\* state then, so the step is taken at once.)
TickPublishFails ==
  \E res \in {RunFans(room, Later(roomStatus), 1,
                       [fansTrailing |-> fansTrailing, trace |-> Blank,
                        suspended |-> <<>>, published |-> <<>>])} :
    /\ res.suspended # <<>>
    /\ event' = "tick"
    /\ roomStatus' = Later(roomStatus)
    /\ fansTrailing' = res.fansTrailing
    /\ trace' = PublishRejected(res).trace
    /\ pending' = pending
    /\ inflight' = LaterInflight(inflight)
    /\ UNCHANGED room

\* No publish of the controller is outstanding.
Idle == pending = <<>> /\ inflight = <<>>

Next ==
  \/ Idle /\ Tick
  \/ Idle /\ Control
  \/ Idle /\ Speed
  \/ Idle /\ Override
  \/ Idle /\ Lights
  \/ Idle /\ Temperature
  \/ Idle /\ Humidity
  \/ Deliver
  \/ Resume

Spec == Init /\ [][Next]_vars

\* Events and ticks also while a publish is outstanding.
NextAsync ==
  \/ Tick
  \/ Control
  \/ Speed
  \/ Humidity
  \/ Deliver
  \/ Resume

SpecAsync == Init /\ [][NextAsync]_vars

\* Two fans, and inputs from outside the controller's domain.
NextFault ==
  \/ Idle /\ Tick
  \/ Idle /\ Control
  \/ Idle /\ SpeedUnknown
  \/ Idle /\ UnknownFan
  \/ Idle /\ Humidity
  \/ Idle /\ TickPublishFails
  \/ Deliver
  \/ Resume

SpecFault == InitFault /\ [][NextFault]_vars

\* The passes that follow a combination of humidity, thresholds and speed.
NextTable ==
  \/ Tick
  \/ Deliver
  \/ Resume

SpecTable == InitTable /\ [][NextTable]_vars

\* ================================================================ claims
FanIdx == 1..Len(room.fans)

\* One of the fan's trigger lights is on, and has been for more than d seconds.
LightOnLongerThan(rs, fan, d) ==
  \E k \in 1..Len(fan.triggerLights) :
    LET light == rs.lights[fan.triggerLights[k]]
    IN  light.value = "on" /\ light.since # NoValue /\ light.since > d

AllLightsOff(rs, fan) ==
  \A k \in 1..Len(fan.triggerLights) : rs.lights[fan.triggerLights[k]].value # "on"

\* How long ago each of the fan's trigger lights went off.
OffFor(rs, fan) ==
  {rs.lights[fan.triggerLights[k]].since : k \in 1..Len(fan.triggerLights)} \ {NoValue}

\* All trigger lights are off and the latest went off more than d seconds ago.
OffLongerThan(rs, fan, d) ==
  AllLightsOff(rs, fan) /\ OffFor(rs, fan) # {} /\ \A a \in OffFor(rs, fan) : a > d

\* The speed the fan is left at by the step tr, given what the pass read.
Resulting(tr, e) == IF tr.step = "eval" THEN tr.newSpeed ELSE e.speed

\* C1: in auto mode, past the min-run-time guard, humidity above the
\* effective maxHumidityThreshold makes the pass choose "max", whatever
\* fansTrailing holds.
C1_AboveMaxRunsMax ==
  \A i \in FanIdx :
    LET fan == room.fans[i]
        e == Effective(roomStatus, fan)
        tr == trace[fan.id]
    IN  (tr.step = "eval" /\ e.humidity > e.maxHumidityThreshold)
          => tr.newSpeed = "max"

\* C2: while a fan in auto mode has a non-"off" speed recorded for less
\* than minRunTime seconds, no step publishes a speed for it or commands
\* its actuator to another speed than the recorded one.
C2_MinRunTimeGuard ==
  \A i \in FanIdx :
    LET fan == room.fans[i]
        st == roomStatus.fans[fan.id]
        e == Effective(roomStatus, fan)
        tr == trace[fan.id]
    IN  (e.control = "auto" /\ e.speed # "off" /\ st.speed.since # NoValue
         /\ st.speed.since < e.minRunTime)
          => (~tr.published /\ tr.commanded \in {"none", e.speed})

\* C3: while a fan is in manual mode, a tick or a humidity, temperature,
\* light or override event leaves the recorded speed as it is, publishes
\* nothing, and its pass commands the actuator with the recorded speed; the
\* recorded speed changes only in a call of the speed mutator.
ManualModeEvents == {"tick", "humidity", "temperature", "lights"} \cup OverrideNames

C4_UpperHysteresis ==
  \A i \in FanIdx :
    LET fan == room.fans[i]
        e == Effective(roomStatus, fan)
        tr == trace[fan.id]
    IN  (tr.step = "eval" /\ e.speed = "max" /\ e.humidity # NoValue) =>
          /\ (e.humidity > e.maxHumidityThreshold - DownToMax
              /\ e.humidity <= e.maxHumidityThreshold) => tr.newSpeed = "max"
          /\ e.humidity <= e.maxHumidityThreshold - DownToMax => tr.newSpeed # "max"

\* C5 as claimed: after any pass over a fan one of whose trigger lights has
\* been on for longer than lightTimeout, fansTrailing is true and the fan's
\* speed is not "off".
C5_TrailingStartAnyPass ==
  \A i \in FanIdx :
    LET fan == room.fans[i]
        e == Effective(roomStatus, fan)
        tr == trace[fan.id]
    IN  (tr.step \in {"manual", "guard", "eval"}
         /\ LightOnLongerThan(roomStatus, fan, e.lightTimeout))
          => (fansTrailing[fan.id] /\ Resulting(tr, e) # "off")

\* C5 amended: after a pass in auto mode that got past the min-run-time
\* guard, over a fan one of whose trigger lights has been on for longer than
\* lightTimeout, fansTrailing is true and the chosen speed is not "off".
C5_TrailingStart ==
  \A i \in FanIdx :
    LET fan == room.fans[i]
        e == Effective(roomStatus, fan)
        tr == trace[fan.id]
    IN  (tr.step = "eval" /\ LightOnLongerThan(roomStatus, fan, e.lightTimeout))
          => (fansTrailing[fan.id] /\ tr.newSpeed # "off")

\* C5 witness: a pass sets fansTrailing for a light long on and chooses
\* "min" although no humidity was ever received.
C5_Witness ==
  \E i \in FanIdx :
    LET fan == room.fans[i]
        e == Effective(roomStatus, fan)
        tr == trace[fan.id]
    IN  /\ tr.step = "eval" /\ LightOnLongerThan(roomStatus, fan, e.lightTimeout)
        /\ ~tr.wasTrailing /\ fansTrailing[fan.id]
        /\ e.humidity = NoValue /\ tr.newSpeed = "min" /\ tr.published

\* C6 as claimed: with all trigger lights off, fansTrailing is cleared only
\* when the latest went off more than trailingTime seconds ago, and then a
\* pass that the min-run-time guard does not hold clears it and leaves the
\* humidity-driven speed.
C6_TrailingEndAnyPass ==
  \A i \in FanIdx :
    LET fan == room.fans[i]
        e == Effective(roomStatus, fan)
        tr == trace[fan.id]
    IN  /\ (tr.wasTrailing /\ ~fansTrailing[fan.id])
             => OffLongerThan(roomStatus, fan, e.trailingTime)
        /\ (tr.step \in {"manual", "eval"} /\ tr.wasTrailing
            /\ OffLongerThan(roomStatus, fan, e.trailingTime))
             => ~fansTrailing[fan.id]

\* C6 amended: fansTrailing is cleared only by a pass in auto mode that got
\* past the min-run-time guard, with all trigger lights off and the latest
\* off for more than trailingTime seconds; every such pass clears it and
\* chooses the humidity-driven speed; any other step leaves it as it was.
C6_TrailingEnd ==
  \A i \in FanIdx :
    LET fan == room.fans[i]
        e == Effective(roomStatus, fan)
        tr == trace[fan.id]
    IN  /\ (tr.wasTrailing /\ ~fansTrailing[fan.id])
             => (tr.step = "eval" /\ OffLongerThan(roomStatus, fan, e.trailingTime))
        /\ (tr.step = "eval" /\ tr.wasTrailing
            /\ OffLongerThan(roomStatus, fan, e.trailingTime))
             => /\ ~fansTrailing[fan.id]
                /\ tr.newSpeed = HumiditySpeed(e.humidity, e.speed,
                                   e.minHumidityThreshold, e.maxHumidityThreshold)
        /\ tr.step # "eval" => fansTrailing[fan.id] = tr.wasTrailing

\* C6 witness: a pass clears fansTrailing, the light being off for longer
\* than trailingTime, and the fan goes from "min" to the humidity-driven "off".
C6_Witness ==
  \E i \in FanIdx :
    LET fan == room.fans[i]
        e == Effective(roomStatus, fan)
        tr == trace[fan.id]
    IN  /\ tr.step = "eval" /\ tr.wasTrailing /\ ~fansTrailing[fan.id]
        /\ OffLongerThan(roomStatus, fan, e.trailingTime)
        /\ e.speed = "min" /\ tr.newSpeed = "off" /\ tr.published

\* C7: a tick that follows a pass directly (no event in between) does not
\* publish again the speed that pass published.
C7_PublishedOnce ==
  [][\A id \in FanIds(room) :
       (event' = "tick" /\ trace[id].published /\ trace'[id].published)
         => trace'[id].newSpeed # trace[id].newSpeed]_vars

\* C8: a pass that chose a newSpeed other than the recorded speed has
\* published it and, when it ends, the record is {value: newSpeed, since:
\* now}; a pass that chose the recorded speed published nothing.
C8_Commit ==
  \A i \in FanIdx :
    LET fan == room.fans[i]
        st == roomStatus.fans[fan.id]
        e == Effective(roomStatus, fan)
        tr == trace[fan.id]
    IN  /\ tr.step = "eval" => (tr.published <=> tr.newSpeed # e.speed)
        /\ (tr.step = "eval" /\ tr.published) =>
             (inflight # <<>>
              /\ inflight[Len(inflight)] =
                   [id |-> fan.id, value |-> tr.newSpeed, since |-> 0])
        /\ tr.step = "resume" => st.speed = [value |-> tr.newSpeed, since |-> 0]

C10_Serialized ==
  Len(pending) <= IF \E id \in FanIds(room) : trace[id].published THEN 1 ELSE 0

\* C11: for a fan in manual mode whose recorded speed is none of "off",
\* "min", "max", every pass that reaches the fan hands the value to the
\* actuator, and goes on to evaluate the fans after it.
C11_UnknownSpeedManual ==
  \A i \in FanIdx :
    LET fan == room.fans[i]
        st == roomStatus.fans[fan.id]
        tr == trace[fan.id]
    IN  (st.control = "manual" /\ st.speed.value \in UnknownSpeedValues
         /\ tr.step # "none")
          => /\ tr.step = "manual"
             /\ tr.commanded = st.speed.value
             /\ \A j \in FanIdx : j > i => trace[room.fans[j].id].step # "none"

\* C12: a pass whose publish for a fan failed still commands that fan's
\* actuator to the speed it chose and evaluates the fans after it (the speeds
\* recorded in the room being off, min or max).
C12_PublishFailure ==
  \A i \in FanIdx :
    LET fan == room.fans[i]
        tr == trace[fan.id]
    IN  (tr.step = "reject"
         /\ \A id \in FanIds(room) : roomStatus.fans[id].speed.value \in SpeedValues)
          => /\ tr.commanded = tr.newSpeed
             /\ \A j \in FanIdx : j > i => trace[room.fans[j].id].step # "none"

\* C13: a fan mutator called with an id that is no fan of the room leaves
\* RoomStatus and fansTrailing as they were; the keys of RoomStatus.fans are
\* the configured fan ids.
C13_UnknownFanNoOp ==
  [][event' = "unknown fan" =>
       /\ roomStatus' = roomStatus
       /\ DOMAIN roomStatus'.fans = FanIds(room)
       /\ fansTrailing' = fansTrailing]_vars

\* C14: a temperature event changes nothing of RoomStatus but the
\* temperature, and its pass leaves fansTrailing, the chosen speeds, the
\* actuator commands and the publishes as a pass over the status before the
\* event leaves them.
C14_TemperatureInformational ==
  [][event' = "temperature" =>
       \E res \in {RunFans(room, roomStatus, 1,
                            [fansTrailing |-> fansTrailing, trace |-> Blank,
                             suspended |-> <<>>, published |-> <<>>])} :
         /\ [roomStatus' EXCEPT !.temperature = roomStatus.temperature] = roomStatus
         /\ fansTrailing' = res.fansTrailing
         /\ trace' = res.trace
         /\ pending' = pending \o res.suspended
         /\ inflight' = inflight \o res.published]_vars

\* C14 witness: a temperature of 21 arrived for a room whose fan, in auto
\* mode at humidity 85, was evaluated and commanded "max" by that pass.
C14_Witness ==
  \E i \in FanIdx :
    LET fan == room.fans[i]
        e == Effective(roomStatus, fan)
        tr == trace[fan.id]
    IN  /\ event = "temperature" /\ roomStatus.temperature = 21
        /\ e.control = "auto" /\ e.humidity = 85
        /\ tr.step = "eval" /\ tr.commanded = "max"

\* C15: the constructor leaves every fan at control "manual", speed "off"
\* and fansTrailing unset; a fan in that state stays in it through every step
\* that is not a control or speed event, and each such step commands its
\* actuator "off" and publishes nothing.
AsConstructed(rs, trailing, id) ==
  /\ rs.fans[id].control = "manual"
  /\ rs.fans[id].speed.value = "off"
  /\ ~trailing[id]

C15_InitialState ==
  /\ \A id \in FanIds(room) : AsConstructed(roomStatus, fansTrailing, id)
  /\ [][\A id \in FanIds(room) :
          (AsConstructed(roomStatus, fansTrailing, id)
           /\ event' \notin {"control", "speed"})
            => /\ AsConstructed(roomStatus', fansTrailing', id)
               /\ trace'[id].step = "manual"
               /\ trace'[id].commanded = "off"
               /\ ~trace'[id].published
               /\ inflight' = IF event' = "tick" THEN LaterInflight(inflight)
                               ELSE inflight]_vars

\* C15 witness: no speed was ever recorded for the fan, humidity 85 arrives
\* with the trigger light long on, and the pass commands "off".
C15_Witness ==
  \E i \in FanIdx :
    LET fan == room.fans[i]
        st == roomStatus.fans[fan.id]
        e == Effective(roomStatus, fan)
        tr == trace[fan.id]
    IN  /\ event = "humidity" /\ e.humidity = 85
        /\ LightOnLongerThan(roomStatus, fan, e.lightTimeout)
        /\ AsConstructed(roomStatus, fansTrailing, fan.id) /\ st.speed.since = NoValue
        /\ tr.step = "manual" /\ tr.commanded = "off" /\ ~tr.published

\* C16: a step that leaves a fan's speed value as it was leaves the
\* speed.since recorded with it as it was (one second older after a tick).
C16_SinceWithValue ==
  [][\A id \in FanIds(room) :
       (roomStatus.fans[id].speed.since # NoValue
        /\ roomStatus'.fans[id].speed.value = roomStatus.fans[id].speed.value)
         => roomStatus'.fans[id].speed.since =
              IF event' = "tick" THEN Older(roomStatus.fans[id].speed.since)
              ELSE roomStatus.fans[id].speed.since]_vars

\* C17: the candidate speed of the humidity step is that of the decision
\* table, for every humidity, thresholds and recorded speed.  (Where
\* fansTrailing is false the speed the pass chooses is the candidate.)
Reference(h, speed, minHumidityThreshold, maxHumidityThreshold) ==
  CASE h > maxHumidityThreshold -> "max"
    [] h <= maxHumidityThreshold /\ speed = "max" /\ h > maxHumidityThreshold - 10
         -> "max"
    [] h <= maxHumidityThreshold
       /\ ~(speed = "max" /\ h > maxHumidityThreshold - 10)
       /\ h > minHumidityThreshold -> "min"
    [] h <= maxHumidityThreshold
       /\ ~(speed = "max" /\ h > maxHumidityThreshold - 10)
       /\ h <= minHumidityThreshold
       /\ speed = "min" /\ h > minHumidityThreshold - 5 -> "min"
    [] OTHER -> "off"

C17_DecisionTable ==
  \A i \in FanIdx :
    LET fan == room.fans[i]
        e == Effective(roomStatus, fan)
        tr == trace[fan.id]
    IN  (tr.step = "eval" /\ ~fansTrailing[fan.id] /\ e.humidity # NoValue)
          => tr.newSpeed = Reference(e.humidity, e.speed, e.minHumidityThreshold,
                                     e.maxHumidityThreshold)

\* C18: in auto mode past the guard, with no humidity reading received, the
\* pass completes and chooses "min" if fansTrailing is true and "off" if it is
\* false, whatever speed is recorded.
C18_MissingHumidity ==
  \A i \in FanIdx :
    LET fan == room.fans[i]
        e == Effective(roomStatus, fan)
        tr == trace[fan.id]
    IN  /\ (tr.step = "eval" /\ e.humidity = NoValue)
             => tr.newSpeed = IF fansTrailing[fan.id] THEN "min" ELSE "off"
        /\ (e.control = "auto" /\ e.humidity = NoValue)
             => tr.step \notin {"throw", "reject"}

\* C18 witness: a fan recorded at "max", no humidity ever received, not
\* trailing: the pass chooses and publishes "off".
C18_Witness ==
  \E i \in FanIdx :
    LET fan == room.fans[i]
        e == Effective(roomStatus, fan)
        tr == trace[fan.id]
    IN  /\ tr.step = "eval" /\ e.humidity = NoValue /\ e.speed = "max"
        /\ ~fansTrailing[fan.id] /\ tr.newSpeed = "off" /\ tr.published

\* C19: whenever a fan's actuator is commanded while its control is
\* "manual", the commanded speed is the recorded speed.
C19_ManualCommand ==
  \A i \in FanIdx :
    LET fan == room.fans[i]
        st == roomStatus.fans[fan.id]
        tr == trace[fan.id]
    IN  (st.control = "manual" /\ tr.commanded # "none")
          => tr.commanded = st.speed.value

====
